---- MODULE Spec2Model ----
(***************************************************************************)
(* BrinkHomeCloud (custom_components/brink_home/core/brink_home_cloud.py): *)
(* the HTTP client of the Brink Home integration.  One client object, one  *)
(* caller that invokes its public coroutines one after the other.  Each    *)
(* coroutine suspends only inside _api_call, on its single request; what   *)
(* the network does with that request is the action's input.               *)
(***************************************************************************)
EXTENDS Integers, Sequences, FiniteSets, TLC

VARIABLES
    username,       \* self._username
    password,       \* self._password
    timeout,        \* self.timeout
    headers,        \* self.headers
    token_exists,   \* self.token_exists: "None" or "True"
    pc,             \* "idle": no call made or its outcome taken; "returned": a call has ended
    call,           \* the call that ended: method, arguments, token_exists before it
    sent,           \* the requests the call made through self._http_session.request
    outcome,        \* what the network did with the request
    api,            \* how _api_call ended: returned the response, or raised
    ret,            \* how the public method ended: returned a value, or raised
    login_2xx,      \* history: some login() got a 2xx response in time and decoded its body
    login_passed    \* history: some login() got a response below 400 in time and decoded its body

vars == <<username, password, timeout, headers, token_exists, pc, call, sent,
          outcome, api, ret, login_2xx, login_passed>>

client == <<username, password, timeout, headers, token_exists>>

(* ------------------------------ bounds -------------------------------- *)

\* longest system list the server answers with
MaxSystems == 2
\* longest listItems of a parameter descriptor
MaxItems == 2

(* ----------------------------- constants ------------------------------ *)

API_URL == "https://www.brink-home.com/portal/api/portal/"

DefaultTimeout == 10

DefaultHeaders ==
    ("X-Requested-With" :> "XMLHttpRequest")
    @@ ("User-Agent" :> "okhttp/3.11.0")
    @@ ("Content-Type" :> "application/json; charset=UTF-8")

\* Python's None, as a request's json argument
None == [none |-> TRUE]

(* How a Python call ends. *)
Return(v) == [raised |-> FALSE, value |-> v]
Raise(e) == [raised |-> TRUE, error |-> e]

(* ------------------------- the network's side ------------------------- *)

Credentials == {<<"alice", "secret">>, <<"bob", "hunter2">>}

Statuses == {200, 201, 300, 304, 399, 400, 503}

JsonBody(j) == [decodes |-> TRUE, json |-> j]
TextBody(t) == [decodes |-> FALSE, text |-> t]

(* Everything that can happen to one request whose response body, when one
   arrives, is among `bodies`: the connection fails, nothing arrives before
   the deadline, a response arrives in time, or one arrives too late.
   delay is the seconds until the request ends: 3 is well inside the
   deadline, 12 is past it. *)
Outcomes(bodies) ==
    {[kind |-> "transport", delay |-> 3], [kind |-> "silent", delay |-> 12]}
    \cup {[kind |-> "response", delay |-> 3, status |-> s, body |-> b] :
            s \in Statuses, b \in bodies}
    \cup {[kind |-> "response", delay |-> 12, status |-> 200, body |-> b] :
            b \in bodies}

RECURSIVE SeqsUpTo(_, _)
SeqsUpTo(S, n) ==
    IF n = 0 THEN {<<>>}
    ELSE LET shorter == SeqsUpTo(S, n - 1)
         IN shorter \cup {Append(q, x) : q \in shorter, x \in S}

LoginBodies ==
    {JsonBody([succeeded |-> TRUE, message |-> ""]),
     JsonBody([succeeded |-> FALSE, message |-> "wrong password"]),
     TextBody("<html>")}

SystemEntries ==
    {[id |-> 1, gatewayId |-> 7, name |-> "Home"],
     [id |-> 2, gatewayId |-> 7, name |-> "Attic"],
     [id |-> 2, gatewayId |-> 8, name |-> "Home"],
     [id |-> 3, gatewayId |-> 8]}

SystemBodies ==
    {JsonBody(l) : l \in SeqsUpTo(SystemEntries, MaxSystems)} \cup {TextBody("<html>")}

ListItems ==
    {[value |-> "0", displayText |-> "Off", isSelectable |-> FALSE],
     [value |-> "1", displayText |-> "Low", isSelectable |-> TRUE],
     [value |-> "2", displayText |-> "High", isSelectable |-> TRUE]}

ModeItems ==
    <<[value |-> "0", displayText |-> "Auto", isSelectable |-> TRUE],
      [value |-> "9", displayText |-> "Service", isSelectable |-> FALSE],
      [value |-> "1", displayText |-> "Manual", isSelectable |-> TRUE]>>

VentilationDescriptor(li) ==
    [name |-> "Ventilation", valueId |-> 1, value |-> "2", listItems |-> li]
ModeDescriptor ==
    [name |-> "Mode", valueId |-> 2, value |-> "0", listItems |-> ModeItems]
BypassDescriptor ==
    [name |-> "Bypass", valueId |-> 3, value |-> "1", listItems |-> <<>>]
\* a descriptor the server sent without its option list
BrokenDescriptor ==
    [name |-> "Mode", valueId |-> 2, value |-> "0"]

ParameterLists(li) ==
    {<<>>,
     <<VentilationDescriptor(li)>>,
     <<VentilationDescriptor(li), ModeDescriptor>>,
     <<ModeDescriptor, VentilationDescriptor(li)>>,
     <<VentilationDescriptor(li), ModeDescriptor, BypassDescriptor>>,
     <<VentilationDescriptor(li), BrokenDescriptor>>,
     <<BrokenDescriptor, ModeDescriptor>>}

OtherPage ==
    [name |-> "Settings", parameterDescriptors |-> <<BypassDescriptor, BypassDescriptor>>]

PageLists(li) ==
    {<<>>, <<[name |-> "Home"]>>}
    \cup {<<[name |-> "Home", parameterDescriptors |-> p]>> : p \in ParameterLists(li)}
    \cup {<<[name |-> "Home", parameterDescriptors |-> p], OtherPage>> :
            p \in ParameterLists(li)}

ParameterBodies ==
    {TextBody("<html>"),
     JsonBody([message |-> "no data"]),
     JsonBody([menuItems |-> [title |-> "Menu"]])}
    \cup {JsonBody([menuItems |-> [pages |-> pl]]) :
            pl \in UNION {PageLists(li) : li \in SeqsUpTo(ListItems, MaxItems)}}

WriteBodies == {TextBody("true"), TextBody("")}

LoginOutcomes == Outcomes(LoginBodies)
SystemOutcomes == Outcomes(SystemBodies)
ParameterOutcomes == Outcomes(ParameterBodies)
WriteOutcomes == Outcomes(WriteBodies)

SystemIds == {1, 2}
GatewayIds == {7, 8}

\* descriptors as get_description_values hands them out, given back by the caller
ModeArgs ==
    {[name |-> "Mode", value_id |-> i, value |-> v, values |-> <<>>] :
        i \in {2, 5}, v \in {"0", "1"}}
VentilationArgs ==
    {[name |-> "Ventilation", value_id |-> i, value |-> v, values |-> <<>>] :
        i \in {1, 4}, v \in {"1", "3"}}

(* ------------------------------ the code ------------------------------ *)

\* mutant: only server errors raise
RaiseForStatusServerErrors(status) == status >= 500

\* mutant: everything but 2xx raises
RaiseForStatusNon2xx(status) == status \notin 200..299

\* req.raise_for_status(): aiohttp raises when the status is 400 or above
RaiseForStatus(status) == status >= 400

\* async_timeout.timeout(self.timeout) around the request
TimedOut(o) == o.delay > timeout

\* what _api_call hands to self._http_session.request
Request(url, method, data) ==
    [method |-> method, url |-> url, json |-> data, headers |-> headers]

\* mutant: a timed-out request is sent a second time before giving up
ApiCallRetry(url, method, data, o) ==
    LET req == Request(url, method, data)
    IN  IF o.delay > timeout
        THEN [requests |-> <<req, req>>, raised |-> TRUE, error |-> "TimeoutError"]
        ELSE IF o.kind = "transport"
        THEN [requests |-> <<req>>, raised |-> TRUE, error |-> "ClientConnectionError"]
        ELSE IF o.status >= 400
        THEN [requests |-> <<req>>, raised |-> TRUE, error |-> "ClientResponseError"]
        ELSE [requests |-> <<req>>, raised |-> FALSE, resp |-> o]

(* _api_call(url, method, data): the one request, and how the call ends.
   Both except clauses log and re-raise what they caught. *)
ApiCall(url, method, data, o) ==
    LET req == Request(url, method, data)
    IN  IF TimedOut(o)
        THEN [requests |-> <<req>>, raised |-> TRUE, error |-> "TimeoutError"]
        ELSE IF o.kind = "transport"
        THEN [requests |-> <<req>>, raised |-> TRUE, error |-> "ClientConnectionError"]
        ELSE IF RaiseForStatus(o.status)
        THEN [requests |-> <<req>>, raised |-> TRUE, error |-> "ClientResponseError"]
        ELSE [requests |-> <<req>>, raised |-> FALSE, resp |-> o]

\* await resp.json()
Json(resp) ==
    IF resp.body.decodes THEN Return(resp.body.json) ELSE Raise("JSONDecodeError")

\* await response.text()
Text(resp) == Return(resp.body.text)

(* The public methods below are given as the effect of one whole call:
   [sent, api, ret, token_exists]. *)
Effect(r, result, token) ==
    [sent |-> r.requests,
     api |-> IF r.raised THEN Raise(r.error) ELSE Return(r.resp),
     ret |-> result,
     token_exists |-> token]

\* mutant: the flag is never set
LoginRunNoFlag(o) ==
    LET data == [UserName |-> username, Password |-> password]
        url == API_URL \o "UserLogon"
        resp == ApiCall(url, "POST", data, o)
    IN  IF resp.raised THEN Effect(resp, Raise(resp.error), token_exists)
        ELSE Effect(resp, Json(resp.resp), token_exists)

\* mutant: the flag is set before the request is awaited
LoginRunEagerFlag(o) ==
    LET data == [UserName |-> username, Password |-> password]
        url == API_URL \o "UserLogon"
        resp == ApiCall(url, "POST", data, o)
    IN  IF resp.raised THEN Effect(resp, Raise(resp.error), "True")
        ELSE Effect(resp, Json(resp.resp), "True")

\* mutant: a failed login clears the flag
LoginRunResetOnFailure(o) ==
    LET data == [UserName |-> username, Password |-> password]
        url == API_URL \o "UserLogon"
        resp == ApiCall(url, "POST", data, o)
    IN  IF resp.raised THEN Effect(resp, Raise(resp.error), "None")
        ELSE LET result == Json(resp.resp)
             IN  IF result.raised THEN Effect(resp, result, "None")
                 ELSE Effect(resp, result, "True")

LoginRun(o) ==
    LET data == [UserName |-> username, Password |-> password]
        url == API_URL \o "UserLogon"
        resp == ApiCall(url, "POST", data, o)
    IN  IF resp.raised THEN Effect(resp, Raise(resp.error), token_exists)
        ELSE LET result == Json(resp.resp)
             IN  IF result.raised THEN Effect(resp, result, token_exists)
                 ELSE Effect(resp, result, "True")

\* mutant: each record is put in front of the ones before it
RECURSIVE MapSystemsPrepend(_, _)
MapSystemsPrepend(result, mapped_result) ==
    IF result = <<>> THEN Return(mapped_result)
    ELSE LET system == Head(result)
         IN  IF ~({"id", "gatewayId", "name"} \subseteq DOMAIN system)
             THEN Raise("KeyError")
             ELSE MapSystemsPrepend(Tail(result),
                                    <<[system_id |-> system.id,
                                       gateway_id |-> system.gatewayId,
                                       name |-> system.name]>> \o mapped_result)

(* get_systems: the loop over the decoded list, appending one record per
   entry; an entry without one of the three keys ends it with a KeyError. *)
RECURSIVE MapSystems(_, _)
MapSystems(result, mapped_result) ==
    IF result = <<>> THEN Return(mapped_result)
    ELSE LET system == Head(result)
         IN  IF ~({"id", "gatewayId", "name"} \subseteq DOMAIN system)
             THEN Raise("KeyError")
             ELSE MapSystems(Tail(result),
                             Append(mapped_result,
                                    [system_id |-> system.id,
                                     gateway_id |-> system.gatewayId,
                                     name |-> system.name]))

GetSystemsRun(o) ==
    LET url == API_URL \o "GetSystemList"
        response == ApiCall(url, "GET", None, o)
    IN  IF response.raised THEN Effect(response, Raise(response.error), token_exists)
        ELSE LET result == Json(response.resp)
             IN  IF result.raised THEN Effect(response, result, token_exists)
                 ELSE Effect(response, MapSystems(result.value, <<>>), token_exists)

\* mutant: the isSelectable test is left out
RECURSIVE GetValuesUnfiltered(_, _)
GetValuesUnfiltered(values, extracted) ==
    IF values = <<>> THEN Return(extracted)
    ELSE LET value == Head(values)
         IN  IF ~({"value", "displayText"} \subseteq DOMAIN value)
             THEN Raise("KeyError")
             ELSE GetValuesUnfiltered(Tail(values),
                                      Append(extracted,
                                             [value |-> value.value,
                                              text |-> value.displayText]))

(* __get_values: the loop over listItems, keeping the selectable ones. *)
RECURSIVE GetValues(_, _)
GetValues(values, extracted) ==
    IF values = <<>> THEN Return(extracted)
    ELSE LET value == Head(values)
         IN  IF "isSelectable" \notin DOMAIN value THEN Raise("KeyError")
             ELSE IF value.isSelectable
             THEN IF ~({"value", "displayText"} \subseteq DOMAIN value)
                  THEN Raise("KeyError")
                  ELSE GetValues(Tail(values),
                                 Append(extracted,
                                        [value |-> value.value, text |-> value.displayText]))
             ELSE GetValues(Tail(values), extracted)

\* __get_type
GetType(type) ==
    IF ~({"name", "valueId", "value", "listItems"} \subseteq DOMAIN type)
    THEN Raise("KeyError")
    ELSE LET values == GetValues(type.listItems, <<>>)
         IN  IF values.raised THEN values
             ELSE Return([name |-> type.name,
                          value_id |-> type.valueId,
                          value |-> type.value,
                          values |-> values.value])

\* dict.get(key, []): the value, or the empty list
Get(d, key) == IF key \in DOMAIN d THEN d[key] ELSE <<>>

\* mutant: the two descriptors are looked up by name, not by position
DescribeByName(result) ==
    IF "menuItems" \notin DOMAIN result THEN Raise("AttributeError")
    ELSE LET menu_items == result.menuItems
             pages == Get(menu_items, "pages")
         IN  IF Len(pages) < 1 THEN Raise("IndexError")
             ELSE LET home_page == pages[1]
                      parameters == Get(home_page, "parameterDescriptors")
                      named(n) == SelectSeq(parameters, LAMBDA d : d.name = n)
                  IN  IF named("Ventilation") = <<>> \/ named("Mode") = <<>>
                      THEN Raise("IndexError")
                      ELSE LET ventilation == GetType(named("Ventilation")[1])
                               mode == GetType(named("Mode")[1])
                           IN  IF ventilation.raised THEN ventilation
                               ELSE IF mode.raised THEN mode
                               ELSE Return([ventilation |-> ventilation.value,
                                            mode |-> mode.value])

(* get_description_values after the response is decoded.  A response
   without menuItems makes menu_items the default list, which has no get. *)
Describe(result) ==
    IF "menuItems" \notin DOMAIN result THEN Raise("AttributeError")
    ELSE LET menu_items == result.menuItems
             pages == Get(menu_items, "pages")
         IN  IF Len(pages) < 1 THEN Raise("IndexError")
             ELSE LET home_page == pages[1]
                      parameters == Get(home_page, "parameterDescriptors")
                  IN  IF Len(parameters) < 2 THEN Raise("IndexError")
                      ELSE LET ventilation == GetType(parameters[1])
                               mode == GetType(parameters[2])
                           IN  IF ventilation.raised THEN ventilation
                               ELSE IF mode.raised THEN mode
                               ELSE Return([ventilation |-> ventilation.value,
                                            mode |-> mode.value])

GetDescriptionValuesRun(system_id, gateway_id, o) ==
    LET url == API_URL \o "GetParameterValues?GatewayId=" \o ToString(gateway_id)
                       \o "&SystemId=" \o ToString(system_id)
        response == ApiCall(url, "GET", None, o)
    IN  IF response.raised THEN Effect(response, Raise(response.error), token_exists)
        ELSE LET result == Json(response.resp)
             IN  IF result.raised THEN Effect(response, result, token_exists)
                 ELSE Effect(response, Describe(result.value), token_exists)

\* mutant: the mode is written with the value the caller passed
VentilationDataKeepsMode(system_id, gateway_id, mode, ventilation) ==
    [GatewayId |-> gateway_id,
     SystemId |-> system_id,
     WriteParameterValues |->
        <<[ValueId |-> mode.value_id, Value |-> mode.value],
          [ValueId |-> ventilation.value_id, Value |-> ventilation.value]>>,
     SendInOneBundle |-> TRUE,
     DependendReadValuesAfterWrite |-> <<ventilation.value_id, mode.value_id>>]

\* the body set_ventilation_value posts
VentilationData(system_id, gateway_id, mode, ventilation) ==
    [GatewayId |-> gateway_id,
     SystemId |-> system_id,
     WriteParameterValues |->
        <<[ValueId |-> mode.value_id, Value |-> "1"],
          [ValueId |-> ventilation.value_id, Value |-> ventilation.value]>>,
     SendInOneBundle |-> TRUE,
     DependendReadValuesAfterWrite |-> <<ventilation.value_id, mode.value_id>>]

SetVentilationValueRun(system_id, gateway_id, mode, ventilation, o) ==
    LET data == VentilationData(system_id, gateway_id, mode, ventilation)
        url == API_URL \o "WriteParameterValuesAsync"
        response == ApiCall(url, "POST", data, o)
    IN  IF response.raised THEN Effect(response, Raise(response.error), token_exists)
        ELSE Effect(response, Text(response.resp), token_exists)

\* the body set_mode_value posts
ModeData(system_id, gateway_id, mode) ==
    [GatewayId |-> gateway_id,
     SystemId |-> system_id,
     WriteParameterValues |-> <<[ValueId |-> mode.value_id, Value |-> mode.value]>>,
     SendInOneBundle |-> TRUE,
     DependendReadValuesAfterWrite |-> <<mode.value_id>>]

SetModeValueRun(system_id, gateway_id, mode, o) ==
    LET data == ModeData(system_id, gateway_id, mode)
        url == API_URL \o "WriteParameterValuesAsync"
        response == ApiCall(url, "POST", data, o)
    IN  IF response.raised THEN Effect(response, Raise(response.error), token_exists)
        ELSE Effect(response, Text(response.resp), token_exists)

(* ----------------------------- the machine ---------------------------- *)

NoCall == [method |-> "none"]
NoOutcome == [kind |-> "none"]
NoResult == [raised |-> FALSE]

\* __init__: no I/O, token_exists is None
Init ==
    /\ \E c \in Credentials : username = c[1] /\ password = c[2]
    /\ timeout = DefaultTimeout
    /\ headers = DefaultHeaders
    /\ token_exists = "None"
    /\ pc = "idle"
    /\ call = NoCall
    /\ sent = <<>>
    /\ outcome = NoOutcome
    /\ api = NoResult
    /\ ret = NoResult
    /\ login_2xx = FALSE
    /\ login_passed = FALSE

\* a response that arrived before the deadline, with a body that decodes
Decoded(o) == o.kind = "response" /\ o.delay <= DefaultTimeout /\ o.body.decodes

\* one whole call: what it did, and how it ended
Ends(c, o, e) ==
    /\ pc' = "returned"
    /\ call' = c
    /\ outcome' = o
    /\ sent' = e.sent
    /\ api' = e.api
    /\ ret' = e.ret
    /\ token_exists' = e.token_exists
    /\ UNCHANGED <<username, password, timeout, headers>>

login ==
    /\ pc = "idle"
    /\ \E o \in LoginOutcomes :
        /\ Ends([method |-> "login", token_before |-> token_exists], o, LoginRun(o))
        /\ login_2xx' = (login_2xx \/ (Decoded(o) /\ o.status \in 200..299))
        /\ login_passed' = (login_passed \/ (Decoded(o) /\ o.status < 400))

get_systems ==
    /\ pc = "idle"
    /\ \E o \in SystemOutcomes :
        /\ Ends([method |-> "get_systems", token_before |-> token_exists], o,
                GetSystemsRun(o))
        /\ UNCHANGED <<login_2xx, login_passed>>

get_description_values ==
    /\ pc = "idle"
    /\ \E system_id \in SystemIds, gateway_id \in GatewayIds, o \in ParameterOutcomes :
        /\ Ends([method |-> "get_description_values", token_before |-> token_exists,
                 system_id |-> system_id, gateway_id |-> gateway_id], o,
                GetDescriptionValuesRun(system_id, gateway_id, o))
        /\ UNCHANGED <<login_2xx, login_passed>>

set_ventilation_value ==
    /\ pc = "idle"
    /\ \E system_id \in SystemIds, gateway_id \in GatewayIds,
       mode \in ModeArgs, ventilation \in VentilationArgs, o \in WriteOutcomes :
        /\ Ends([method |-> "set_ventilation_value", token_before |-> token_exists,
                 system_id |-> system_id, gateway_id |-> gateway_id,
                 mode |-> mode, ventilation |-> ventilation], o,
                SetVentilationValueRun(system_id, gateway_id, mode, ventilation, o))
        /\ UNCHANGED <<login_2xx, login_passed>>

set_mode_value ==
    /\ pc = "idle"
    /\ \E system_id \in SystemIds, gateway_id \in GatewayIds,
       mode \in ModeArgs, o \in WriteOutcomes :
        /\ Ends([method |-> "set_mode_value", token_before |-> token_exists,
                 system_id |-> system_id, gateway_id |-> gateway_id, mode |-> mode], o,
                SetModeValueRun(system_id, gateway_id, mode, o))
        /\ UNCHANGED <<login_2xx, login_passed>>

\* the caller takes the value or the exception and goes on
Collect ==
    /\ pc = "returned"
    /\ pc' = "idle"
    /\ call' = NoCall
    /\ sent' = <<>>
    /\ outcome' = NoOutcome
    /\ api' = NoResult
    /\ ret' = NoResult
    /\ UNCHANGED <<client, login_2xx, login_passed>>

Next ==
    \/ login
    \/ get_systems
    \/ get_description_values
    \/ set_ventilation_value
    \/ set_mode_value
    \/ Collect

Spec == Init /\ [][Next]_vars

(* ------------------------------ the claims ---------------------------- *)

\* a call of method m has ended
Returned(m) == pc = "returned" /\ call.method = m

\* a response reached the client before the 10-second deadline
Received == outcome.kind = "response" /\ outcome.delay <= DefaultTimeout

\* C1: one call to login() issues exactly one request, a POST to the UserLogon
\* path whose body is {UserName: username, Password: password}; when the
\* response is 2xx and its body decodes, login() returns the decoded JSON
\* unchanged and token_exists is True afterwards.
C1_LoginContract ==
    Returned("login") =>
        /\ Len(sent) = 1
        /\ sent[1].method = "POST"
        /\ sent[1].url = "https://www.brink-home.com/portal/api/portal/UserLogon"
        /\ sent[1].json = [UserName |-> username, Password |-> password]
        /\ (Received /\ outcome.status \in 200..299 /\ outcome.body.decodes) =>
                /\ ret = Return(outcome.body.json)
                /\ token_exists = "True"

C1_Witness ==
    /\ Returned("login")
    /\ Received /\ outcome.status = 200 /\ outcome.body.decodes
    /\ call.token_before = "None"
    /\ token_exists = "True"
    /\ ~ret.raised /\ ret.value.succeeded

\* C2: for every public method, a response with status >= 400 makes the call
\* fail with a status error that reaches the caller, and the method returns no
\* decoded result.
C2_StatusErrorFailsCall ==
    (pc = "returned" /\ Received /\ outcome.status >= 400) =>
        /\ ret = Raise("ClientResponseError")
        /\ "value" \notin DOMAIN ret

C2_Witness ==
    /\ Returned("get_systems")
    /\ Received /\ outcome.status = 400 /\ outcome.body.decodes
    /\ Len(outcome.body.json) = 2
    /\ ret.raised

\* C3: when the request of any public method exceeds the 10-second timeout,
\* the call fails with a timeout error raised to the caller and no client state
\* is modified; a login() that times out leaves token_exists as it was.
C3_TimeoutLeavesClient ==
    [][(pc = "idle" /\ pc' = "returned" /\ outcome'.delay > DefaultTimeout) =>
            /\ ret' = Raise("TimeoutError")
            /\ UNCHANGED client
            /\ token_exists' = call'.token_before]_vars

C3_Witness ==
    /\ Returned("login")
    /\ outcome.kind = "response" /\ outcome.delay > DefaultTimeout
    /\ outcome.status = 200 /\ outcome.body.decodes
    /\ ret.raised /\ ret.error = "TimeoutError"
    /\ token_exists = "None"

\* C4 as stated: every response whose status is outside 200-299, 1xx and 3xx
\* included, makes _api_call raise a status error instead of returning it.
C4_Non2xxRaises ==
    (pc = "returned" /\ Received /\ outcome.status \notin 200..299) =>
        api = Raise("ClientResponseError")

\* C4 as amended: every response whose status is 400 or above makes _api_call
\* raise a status error and not return the response; a response below 400,
\* 1xx and 3xx included, is returned to the calling method.
C4_ErrorStatusRaises ==
    (pc = "returned" /\ Received) =>
        /\ outcome.status >= 400 => api = Raise("ClientResponseError")
        /\ outcome.status < 400 => api = Return(outcome)

C4_Witness ==
    /\ Returned("set_mode_value")
    /\ Received /\ outcome.status = 304
    /\ ~api.raised /\ ~ret.raised

\* C5: every invocation of a public method issues exactly one request through
\* _api_call whatever the outcome; after a status error, transport error or
\* timeout the same error kind is re-raised to the caller and no second request
\* is issued.
C5_OneRequestNoRetry ==
    pc = "returned" =>
        /\ Len(sent) = 1
        /\ outcome.delay > DefaultTimeout =>
                api = Raise("TimeoutError") /\ ret = api
        /\ (outcome.delay <= DefaultTimeout /\ outcome.kind = "transport") =>
                api = Raise("ClientConnectionError") /\ ret = api
        /\ (Received /\ outcome.status >= 400) =>
                api = Raise("ClientResponseError") /\ ret = api

C5_Witness ==
    /\ Returned("get_description_values")
    /\ outcome.kind = "silent"
    /\ Len(sent) = 1 /\ sent[1].method = "GET"
    /\ ret.raised

\* the entries of a system list all carry id, gatewayId and name
WellFormed(systems) ==
    \A i \in 1..Len(systems) : DOMAIN systems[i] = {"id", "gatewayId", "name"}

\* C6: for every system-list response with N entries, get_systems() returns
\* exactly N records, record i being {system_id: entry_i.id, gateway_id:
\* entry_i.gatewayId, name: entry_i.name}, in the order of the response.
C6_SystemsMapped ==
    (Returned("get_systems") /\ Received /\ outcome.status < 400
        /\ outcome.body.decodes /\ WellFormed(outcome.body.json)) =>
        LET entries == outcome.body.json
        IN  /\ ~ret.raised
            /\ Len(ret.value) = Len(entries)
            /\ \A i \in 1..Len(entries) :
                    ret.value[i] = [system_id |-> entries[i].id,
                                    gateway_id |-> entries[i].gatewayId,
                                    name |-> entries[i].name]

C6_Witness ==
    /\ Returned("get_systems")
    /\ Received /\ outcome.status = 200 /\ outcome.body.decodes
    /\ WellFormed(outcome.body.json)
    /\ Len(outcome.body.json) = 2
    /\ outcome.body.json[1] # outcome.body.json[2]
    /\ ~ret.raised /\ Len(ret.value) = 2

\* the selectable items of an option list, in order, as {value, text}
Options(listItems) ==
    LET selectable == SelectSeq(listItems, LAMBDA item : item.isSelectable)
    IN  [i \in 1..Len(selectable) |->
            [value |-> selectable[i].value, text |-> selectable[i].displayText]]

\* the descriptors of the first page of the response
Descriptors == outcome.body.json.menuItems.pages[1].parameterDescriptors

\* C7: for every descriptor get_description_values returns, values is exactly
\* the subsequence of the descriptor's listItems with isSelectable true, in
\* order, each as {value: value, text: displayText}; an item with isSelectable
\* false never appears.
C7_OnlySelectable ==
    (Returned("get_description_values") /\ ~ret.raised) =>
        /\ ret.value.ventilation.values = Options(Descriptors[1].listItems)
        /\ ret.value.mode.values = Options(Descriptors[2].listItems)
        /\ \A k \in {1, 2} : \A i \in 1..Len(Descriptors[k].listItems) :
                LET item == Descriptors[k].listItems[i]
                    values == IF k = 1 THEN ret.value.ventilation.values
                              ELSE ret.value.mode.values
                IN  ~item.isSelectable =>
                        \A j \in 1..Len(values) : values[j].text # item.displayText

C7_Witness ==
    /\ Returned("get_description_values") /\ ~ret.raised
    /\ Len(Descriptors[1].listItems) = 2
    /\ ~Descriptors[1].listItems[1].isSelectable
    /\ Descriptors[1].listItems[2].isSelectable
    /\ ret.value.ventilation.values = <<[value |-> "1", text |-> "Low"]>>

\* C8: the body set_ventilation_value posts has exactly two
\* WriteParameterValues entries, {ValueId: mode.value_id, Value: "1"} whatever
\* mode.value is and {ValueId: ventilation.value_id, Value: ventilation.value};
\* SendInOneBundle is true and DependendReadValuesAfterWrite names both ids.
C8_VentilationWrite ==
    Returned("set_ventilation_value") =>
        /\ Len(sent) = 1
        /\ LET data == sent[1].json
               reads == data.DependendReadValuesAfterWrite
           IN  /\ data.WriteParameterValues =
                    <<[ValueId |-> call.mode.value_id, Value |-> "1"],
                      [ValueId |-> call.ventilation.value_id,
                       Value |-> call.ventilation.value]>>
               /\ data.SendInOneBundle = TRUE
               /\ {reads[i] : i \in 1..Len(reads)} =
                    {call.mode.value_id, call.ventilation.value_id}

C8_Witness ==
    /\ Returned("set_ventilation_value")
    /\ call.mode.value = "0"
    /\ call.ventilation.value = "3"
    /\ sent[1].json.WriteParameterValues[1].Value = "1"
    /\ sent[1].json.WriteParameterValues[2].Value = "3"

\* the first page's descriptors as the code reads them: none when a key or
\* the page is missing
FirstPageDescriptors ==
    LET menu_items == outcome.body.json.menuItems
        pages == IF "pages" \in DOMAIN menu_items THEN menu_items.pages ELSE <<>>
    IN  IF pages = <<>> \/ "parameterDescriptors" \notin DOMAIN pages[1] THEN <<>>
        ELSE pages[1].parameterDescriptors

\* C9: get_description_values selects by position only: ventilation is built
\* from parameterDescriptors[0] and mode from parameterDescriptors[1] of
\* menuItems.pages[0] whatever their names; with no page or fewer than two
\* descriptors the call fails with an index/key error and returns no bundle.
C9_Positional ==
    (Returned("get_description_values") /\ Received /\ outcome.status < 400
        /\ outcome.body.decodes /\ "menuItems" \in DOMAIN outcome.body.json) =>
        LET d == FirstPageDescriptors
        IN  /\ ~ret.raised =>
                /\ Len(d) >= 2
                /\ ret.value.ventilation.name = d[1].name
                /\ ret.value.ventilation.value_id = d[1].valueId
                /\ ret.value.ventilation.value = d[1].value
                /\ ret.value.mode.name = d[2].name
                /\ ret.value.mode.value_id = d[2].valueId
                /\ ret.value.mode.value = d[2].value
            /\ Len(d) < 2 =>
                /\ ret.raised
                /\ ret.error \in {"IndexError", "KeyError"}
            /\ (Len(d) >= 2 /\ \A k \in {1, 2} : "listItems" \in DOMAIN d[k]) =>
                ~ret.raised

C9_Witness ==
    /\ Returned("get_description_values") /\ ~ret.raised
    /\ Descriptors[1].name = "Mode" /\ Descriptors[2].name = "Ventilation"
    /\ ret.value.ventilation.name = "Mode"
    /\ ret.value.mode.name = "Ventilation"

\* C10 as stated: token_exists is True if and only if some login() has received
\* a 2xx response and decoded its body.
C10_FlagIffLogin2xx == (token_exists = "True") <=> login_2xx

\* C10 as amended: token_exists is True if and only if some login() has
\* received a response with a status below 400 and decoded its body; the flag
\* never reverts from True, only login() writes it, and the other four methods
\* leave it unchanged and issue their request whether or not it is set.
C10_FlagTracksLogin ==
    /\ []((token_exists = "True") <=> login_passed)
    /\ [][token_exists = "True" => token_exists' = "True"]_vars
    /\ [][token_exists' # token_exists => call'.method = "login"]_vars
    /\ []((pc = "returned" /\ call.method # "login") =>
            (Len(sent) = 1 /\ token_exists = call.token_before))

C10_Witness ==
    /\ Returned("login")
    /\ ret.raised
    /\ call.token_before = "True"
    /\ token_exists = "True"
    /\ login_passed /\ ~login_2xx

====
